---- MODULE Spec2Model ----
(***************************************************************************)
(* Model of src/server.js: the three POST handlers /api/validate,          *)
(* /api/share and /api/share-story of the Facebook automation backend.     *)
(*                                                                         *)
(* One request is handled per behaviour.  Every `await` on the automation  *)
(* engine (puppeteer) is one action that either returns or raises; the     *)
(* synchronous code of a handler is modelled at the statement it stands    *)
(* at.  JSON values of the request body are tagged records, JavaScript     *)
(* numbers are records that can be NaN, and text is a sequence of          *)
(* one-character strings so that trim() and parseInt() are computed.       *)
(***************************************************************************)
EXTENDS Integers, Sequences, FiniteSets, TLC

VARIABLES
    me,          \* the request whose handler the event loop is running
    parked,      \* the locals of the other request, suspended at an await
    pushes,      \* per request, the records its own attempts pushed (history)
    ep,          \* the route of the request: "validate", "share", "story"
    body,        \* req.body
    pc,          \* the statement the handler stands at
    browser,     \* the handler's local `browser`: "undefined" or a session
    launches,    \* number of puppeteer.launch() calls that returned
    closes,      \* number of browser.close() calls made
    dom,         \* aria-label landmarks of the page currently loaded
    isLoggedIn,  \* the local `isLoggedIn`
    postSuccess, \* the local `postSuccess`
    shareCount,  \* the local `shareCount` (a JavaScript number)
    shareDelay,  \* the local `shareDelay` (a JavaScript number)
    i,           \* the loop variable of the attempt loop
    results,     \* the local `results`
    navigated,   \* attempt ordinals for which page.goto was invoked
    delayed,     \* attempt ordinals after which the inter-attempt wait elapsed
    err,         \* message of the error being handled by a catch block
    raised,      \* the step whose error reached the handler's outer catch
    responses,   \* HTTP responses sent through `res`, in order
    rejected,    \* the handler's promise rejected (an error left the handler)
    faults       \* failures injected so far by the environment

vars == << me, parked, pushes, ep, body, pc, browser, launches, closes, dom, isLoggedIn, postSuccess,
           shareCount, shareDelay, i, results, navigated, delayed, err, raised,
           responses, rejected, faults >>

-----------------------------------------------------------------------------
(* Bounds of the model *)

\* failures (raised errors, missing or lingering landmarks) per /api/share run
MaxFaults == 2

\* program constants of the clamps
MinShares == 1
MaxShares == 10
MinDelay == 5
MaxDelay == 60
DefaultCount == 1
DefaultDelay == 15

-----------------------------------------------------------------------------
(* JSON values *)

Undef == [t |-> "undef", v |-> 0]
Null == [t |-> "null", v |-> 0]
JNum(n) == [t |-> "num", v |-> n]
JStr(s) == [t |-> "str", v |-> s]
JBool(b) == [t |-> "bool", v |-> b]
JObj == [t |-> "obj", v |-> 0]
JArr(a) == [t |-> "arr", v |-> a]

\* JavaScript truthiness: `!x` is Falsy(x)
Falsy(x) ==
    \/ x.t \in {"undef", "null"}
    \/ x.t = "num" /\ x.v = 0
    \/ x.t = "str" /\ x.v = << >>
    \/ x.t = "bool" /\ x.v = FALSE

IsArray(x) == x.t = "arr"

\* a destructuring default `name = d` applies to an absent property only
Default(x, d) == IF x.t = "undef" THEN d ELSE x

-----------------------------------------------------------------------------
(* JavaScript numbers: an integer or NaN *)

Num(n) == [nan |-> FALSE, v |-> n]
NaN == [nan |-> TRUE, v |-> 0]

\* Math.max and Math.min return NaN when an argument is NaN
MathMax(a, b) == IF a.nan \/ b.nan THEN NaN ELSE IF a.v >= b.v THEN a ELSE b
MathMin(a, b) == IF a.nan \/ b.nan THEN NaN ELSE IF a.v <= b.v THEN a ELSE b

\* `a < b`: false when either side is NaN
Less(a, b) == ~a.nan /\ ~b.nan /\ a.v < b.v

Minus(a, b) == IF a.nan \/ b.nan THEN NaN ELSE Num(a.v - b.v)

-----------------------------------------------------------------------------
(* Text *)

Digits == <<"0", "1", "2", "3", "4", "5", "6", "7", "8", "9">>
IsDigit(c) == \E d \in 1..10 : Digits[d] = c
DigitVal(c) == (CHOOSE d \in 1..10 : Digits[d] = c) - 1
IsSpace(c) == c = " "

RECURSIVE TrimStart(_)
TrimStart(s) ==
    IF s # << >> /\ IsSpace(Head(s)) THEN TrimStart(Tail(s)) ELSE s

RECURSIVE TrimEnd(_)
TrimEnd(s) ==
    IF s # << >> /\ IsSpace(s[Len(s)]) THEN TrimEnd(SubSeq(s, 1, Len(s) - 1)) ELSE s

\* String.prototype.trim
Trim(s) == TrimEnd(TrimStart(s))

RECURSIVE NatToStr(_)
NatToStr(n) ==
    IF n < 10 THEN << Digits[n + 1] >>
    ELSE NatToStr(n \div 10) \o << Digits[(n % 10) + 1] >>

\* String(x), as parseInt applies it to its argument
ToStr(x) ==
    CASE x.t = "str" -> x.v
      [] x.t = "num" -> IF x.v < 0 THEN <<"-">> \o NatToStr(-x.v) ELSE NatToStr(x.v)
      [] x.t = "null" -> <<"n", "u", "l", "l">>
      [] x.t = "undef" -> <<"u", "n", "d", "e", "f", "i", "n", "e", "d">>
      [] x.t = "bool" -> IF x.v THEN <<"t", "r", "u", "e">> ELSE <<"f", "a", "l", "s", "e">>
      [] OTHER -> <<"[", "o", "b", "j", "e", "c", "t", " ", "O", "b", "j", "e", "c", "t", "]">>

\* the value of the longest prefix of decimal digits, acc being the value so far
RECURSIVE DigitsPrefix(_, _)
DigitsPrefix(s, acc) ==
    IF s # << >> /\ IsDigit(Head(s))
    THEN DigitsPrefix(Tail(s), 10 * acc + DigitVal(Head(s)))
    ELSE acc

\* parseInt(x): leading blanks skipped, an optional sign, then decimal digits up
\* to the first other character; NaN when there is no digit
ParseInt(x) ==
    LET s == TrimStart(ToStr(x))
        neg == s # << >> /\ Head(s) = "-"
        signed == s # << >> /\ Head(s) \in {"-", "+"}
        d == IF signed THEN Tail(s) ELSE s
    IN  IF d = << >> \/ ~IsDigit(Head(d)) THEN NaN
        ELSE IF neg THEN Num(-DigitsPrefix(d, 0)) ELSE Num(DigitsPrefix(d, 0))

\* Math.min(Math.max(parseInt(x), lo), hi)
Clamp(x, lo, hi) == MathMin(MathMax(ParseInt(x), Num(lo)), Num(hi))

\* Math.round((successful / shareCount) * 100)
SuccessRate(successful, total) ==
    IF total.nan \/ total.v = 0 THEN NaN
    ELSE Num((200 * successful + total.v) \div (2 * total.v))

-----------------------------------------------------------------------------
(* Request bodies *)

Cookie(n, val) == [name |-> n, value |-> val]

AppStates ==
    { Undef, Null, JObj, JStr(<<"x">>), JArr(<< >>),
      JArr(<< Cookie("c_user", "100") >>),
      JArr(<< Cookie("xs", "s1") >>),
      JArr(<< Cookie("c_user", "100"), Cookie("xs", "s1") >>),
      JArr(<< Cookie("datr", "d1"), Cookie("xs", "s1"),
              Cookie("c_user", "200"), Cookie("c_user", "100") >>) }

Messages ==
    { Undef, Null, JNum(0), JNum(7), JBool(TRUE), JObj,
      JStr(<< >>), JStr(<<" ", " ">>), JStr(<<"h", "i">>), JStr(<<" ", "h">>) }

Links == { Undef, JStr(<<" ">>), JStr(<<"u">>), JNum(7) }

Counts ==
    { Undef, Null, JNum(0), JNum(-4), JNum(2), JNum(15),
      JStr(<<"3">>), JStr(<<" ", "2", "x">>), JStr(<<"a", "b", "c">>) }

Delays == { Undef, JNum(2), JNum(90), JStr(<<"4", "0">>), JStr(<<"s">>) }

Body(a, m, l, c, d) == [appstate |-> a, message |-> m, link |-> l, count |-> c, delay |-> d]

ValidateBodies == { Body(a, Undef, Undef, Undef, Undef) : a \in AppStates }

StoryBodies == { Body(a, m, Undef, Undef, Undef) : a \in AppStates, m \in Messages }

\* /api/share: every appstate with every message; every link with every count
\* and every delay, each with a body that passes the input checks
ShareBodies ==
    { Body(a, m, Undef, Undef, Undef) : a \in AppStates, m \in Messages }
        \cup
    { Body(JArr(<< Cookie("c_user", "100"), Cookie("xs", "s1") >>),
           JStr(<<"h", "i">>), l, c, Undef) : l \in Links, c \in Counts }
        \cup
    { Body(JArr(<< Cookie("c_user", "100"), Cookie("xs", "s1") >>),
           JStr(<<"h", "i">>), Undef, Undef, d) : d \in Delays }

\* /api/share, the inputs that decide how long a run is: every count, every
\* link, and a body the input checks reject
LoopBodies ==
    { Body(JArr(<< Cookie("c_user", "100"), Cookie("xs", "s1") >>),
           JStr(<<"h", "i">>), Undef, c, Undef) : c \in Counts }
        \cup
    { Body(JArr(<< Cookie("c_user", "100"), Cookie("xs", "s1") >>),
           JStr(<<"h", "i">>), l, Undef, Undef) : l \in Links }
        \cup
    { Body(Undef, JStr(<<"h", "i">>), Undef, Undef, Undef) }

\* the aria-label landmarks the handlers query
Landmarks == { "Create a post", "Messenger", "Notifications", "Your profile" }
\* the pages the site serves: logged out, logged in with and without the compose
\* affordance and the profile link
Pages ==
    { {}, {"Messenger"}, {"Notifications", "Your profile"},
      {"Create a post"}, {"Create a post", "Messenger", "Notifications", "Your profile"} }

\* messages of the errors the automation engine raises
EngineMsgs == { "Navigation timeout of 30000 ms exceeded" }

\* Array.prototype.find(c => c.name === n): the first entry named n, or undefined
Find(a, n) ==
    IF \E k \in 1..Len(a) : a[k].name = n
    THEN LET k == CHOOSE j \in 1..Len(a) :
                     a[j].name = n /\ \A h \in 1..(j - 1) : a[h].name # n
         IN  [t |-> "obj", v |-> a[k]]
    ELSE Undef

c_user == Find(body.appstate.v, "c_user")
xs == Find(body.appstate.v, "xs")

-----------------------------------------------------------------------------
(* The parts all three handlers share *)

\* res.status(s).json(b)
Send(s, b) == responses' = Append(responses, [status |-> s, body |-> b])

Failure(e) == [success |-> FALSE, error |-> e]

\* `await f(...)` at statement `here`, inside the handler's outer try only: it
\* returns and the handler goes on at `next`, or it raises and the error reaches
\* the handler's catch block
Call(here, next, step) ==
    /\ pc = here
    /\ \/ /\ pc' = next
          /\ UNCHANGED << err, raised, faults >>
       \/ /\ faults < MaxFaults
          /\ \E m \in EngineMsgs : err' = m
          /\ raised' = step
          /\ pc' = "catch"
          /\ faults' = faults + 1

\* the browser session puppeteer.launch() starts for request r
Session(r) == IF r = 1 THEN "session 1" ELSE "session 2"

\* browser = await puppeteer.launch(...)
Launch(here, next) ==
    /\ Call(here, next, "launch")
    /\ IF pc' = next
       THEN browser' = Session(me) /\ launches' = launches + 1
       ELSE UNCHANGED << browser, launches >>

\* a variant that releases the browser at the end of the try block only, so that
\* an error path skips the release
FinallyBlockSkipsOnError ==
    /\ pc = "finally"
    /\ IF browser # "undefined" /\ raised = "none"
       THEN closes' = closes + 1 /\ pc' = "closing"
       ELSE closes' = closes /\ pc' = "done"

\* finally { if (browser) await browser.close() }
FinallyBlock ==
    /\ pc = "finally"
    /\ IF browser # "undefined"
       THEN closes' = closes + 1 /\ pc' = "closing"
       ELSE closes' = closes /\ pc' = "done"

\* browser.close() returns, or raises and the error leaves the handler
CloseDone ==
    /\ pc = "closing"
    /\ pc' = "done"
    /\ rejected' \in { FALSE, TRUE }

-----------------------------------------------------------------------------
(* POST /api/validate *)

\* a variant that rejects only when both cookies are missing (`&&` for `||`)
ValidateInputBothMissing ==
    /\ ep = "validate" /\ pc = "v_input"
    /\ IF Falsy(body.appstate) \/ ~IsArray(body.appstate)
       THEN /\ Send(400, Failure("Invalid AppState format. Must be an array of cookies."))
            /\ pc' = "finally"
       ELSE IF Falsy(c_user) /\ Falsy(xs)
       THEN /\ Send(400, Failure("Missing required cookies: c_user or xs"))
            /\ pc' = "finally"
       ELSE /\ pc' = "v_launch"
            /\ UNCHANGED responses
    /\ UNCHANGED << me, parked, pushes >>
    /\ UNCHANGED << ep, body, browser, launches, closes, dom, isLoggedIn, postSuccess,
                    shareCount, shareDelay, i, results, navigated, delayed, err, raised,
                    rejected, faults >>

\* the input checks of /api/validate
ValidateInput ==
    /\ ep = "validate" /\ pc = "v_input"
    /\ IF Falsy(body.appstate) \/ ~IsArray(body.appstate)
       THEN /\ Send(400, Failure("Invalid AppState format. Must be an array of cookies."))
            /\ pc' = "finally"
       ELSE IF Falsy(c_user) \/ Falsy(xs)
       THEN /\ Send(400, Failure("Missing required cookies: c_user or xs"))
            /\ pc' = "finally"
       ELSE /\ pc' = "v_launch"
            /\ UNCHANGED responses
    /\ UNCHANGED << me, parked, pushes >>
    /\ UNCHANGED << ep, body, browser, launches, closes, dom, isLoggedIn, postSuccess,
                    shareCount, shareDelay, i, results, navigated, delayed, err, raised,
                    rejected, faults >>

ValidateLaunch ==
    /\ ep = "validate"
    /\ Launch("v_launch", "v_newPage")
    /\ UNCHANGED << me, parked, pushes >>
    /\ UNCHANGED << ep, body, closes, dom, isLoggedIn, postSuccess, shareCount,
                    shareDelay, i, results, navigated, delayed, responses, rejected >>

ValidateNewPage ==
    /\ ep = "validate"
    /\ Call("v_newPage", "v_setViewport", "newPage")
    /\ UNCHANGED << me, parked, pushes >>
    /\ UNCHANGED << ep, body, browser, launches, closes, dom, isLoggedIn, postSuccess,
                    shareCount, shareDelay, i, results, navigated, delayed, responses,
                    rejected >>

ValidateSetViewport ==
    /\ ep = "validate"
    /\ Call("v_setViewport", "v_setUserAgent", "setViewport")
    /\ UNCHANGED << me, parked, pushes >>
    /\ UNCHANGED << ep, body, browser, launches, closes, dom, isLoggedIn, postSuccess,
                    shareCount, shareDelay, i, results, navigated, delayed, responses,
                    rejected >>

ValidateSetUserAgent ==
    /\ ep = "validate"
    /\ Call("v_setUserAgent", "v_setCookie", "setUserAgent")
    /\ UNCHANGED << me, parked, pushes >>
    /\ UNCHANGED << ep, body, browser, launches, closes, dom, isLoggedIn, postSuccess,
                    shareCount, shareDelay, i, results, navigated, delayed, responses,
                    rejected >>

ValidateSetCookie ==
    /\ ep = "validate"
    /\ Call("v_setCookie", "v_goto", "setCookie")
    /\ UNCHANGED << me, parked, pushes >>
    /\ UNCHANGED << ep, body, browser, launches, closes, dom, isLoggedIn, postSuccess,
                    shareCount, shareDelay, i, results, navigated, delayed, responses,
                    rejected >>

\* page.goto: when it returns, some page of the site is loaded
ValidateGoto ==
    /\ ep = "validate"
    /\ Call("v_goto", "v_isLoggedIn", "goto")
    /\ navigated' = navigated \cup {1}
    /\ IF pc' = "v_isLoggedIn" THEN dom' \in Pages ELSE dom' = dom
    /\ UNCHANGED << me, parked, pushes >>
    /\ UNCHANGED << ep, body, browser, launches, closes, isLoggedIn, postSuccess,
                    shareCount, shareDelay, i, results, delayed, responses, rejected >>

\* a variant that looks for the compose affordance only
ValidateLandmarksComposeOnly(d) == "Create a post" \in d

\* the landmark test of /api/validate
ValidateLandmarks(d) ==
    "Create a post" \in d \/ "Messenger" \in d \/ "Notifications" \in d

ValidateIsLoggedIn ==
    /\ ep = "validate"
    /\ Call("v_isLoggedIn", "v_verdict", "evaluate isLoggedIn")
    /\ IF pc' = "v_verdict"
       THEN isLoggedIn' = ValidateLandmarks(dom)
       ELSE isLoggedIn' = isLoggedIn
    /\ UNCHANGED << me, parked, pushes >>
    /\ UNCHANGED << ep, body, browser, launches, closes, dom, postSuccess, shareCount,
                    shareDelay, i, results, navigated, delayed, responses, rejected >>

\* if (isLoggedIn) { userInfo = await page.evaluate(...); res.json(...) }
\* else res.status(401).json(...)
ValidateVerdict ==
    /\ ep = "validate" /\ pc = "v_verdict"
    /\ IF isLoggedIn
       THEN pc' = "v_userInfo" /\ UNCHANGED responses
       ELSE /\ Send(401, Failure("Invalid session - unable to login with provided cookies"))
            /\ pc' = "finally"
    /\ UNCHANGED << me, parked, pushes >>
    /\ UNCHANGED << ep, body, browser, launches, closes, dom, isLoggedIn, postSuccess,
                    shareCount, shareDelay, i, results, navigated, delayed, err, raised,
                    rejected, faults >>

UserInfo(d) == IF "Your profile" \in d THEN "Your profile" ELSE "Facebook User"

ValidateUserInfo ==
    /\ ep = "validate"
    /\ Call("v_userInfo", "finally", "evaluate userInfo")
    /\ IF pc' = "finally"
       THEN Send(200, [success |-> TRUE,
                       message |-> "Session is valid and ready for automation",
                       user |-> UserInfo(dom),
                       userId |-> c_user.v.value])
       ELSE UNCHANGED responses
    /\ UNCHANGED << me, parked, pushes >>
    /\ UNCHANGED << ep, body, browser, launches, closes, dom, isLoggedIn, postSuccess,
                    shareCount, shareDelay, i, results, navigated, delayed, rejected >>

ValidateCatch ==
    /\ ep = "validate" /\ pc = "catch"
    /\ Send(500, Failure(<< "Validation failed: ", err >>))
    /\ pc' = "finally"
    /\ UNCHANGED << me, parked, pushes >>
    /\ UNCHANGED << ep, body, browser, launches, closes, dom, isLoggedIn, postSuccess,
                    shareCount, shareDelay, i, results, navigated, delayed, err, raised,
                    rejected, faults >>

ValidateFinally ==
    /\ ep = "validate"
    /\ FinallyBlock
    /\ UNCHANGED << me, parked, pushes >>
    /\ UNCHANGED << ep, body, browser, launches, dom, isLoggedIn, postSuccess,
                    shareCount, shareDelay, i, results, navigated, delayed, err, raised,
                    responses, rejected, faults >>

ValidateClose ==
    /\ ep = "validate"
    /\ CloseDone
    /\ UNCHANGED << me, parked, pushes >>
    /\ UNCHANGED << ep, body, browser, launches, closes, dom, isLoggedIn, postSuccess,
                    shareCount, shareDelay, i, results, navigated, delayed, err, raised,
                    responses, faults >>

-----------------------------------------------------------------------------
(* POST /api/share *)

\* the input checks and the clamps of count and delay
ShareInput ==
    /\ ep = "share" /\ pc = "s_input"
    /\ IF Falsy(body.appstate) \/ ~IsArray(body.appstate)
       THEN /\ Send(400, Failure("Invalid AppState format"))
            /\ pc' = "finally"
            /\ UNCHANGED << shareCount, shareDelay, err, raised >>
       ELSE IF Falsy(body.message)
       THEN /\ Send(400, Failure("Message is required"))
            /\ pc' = "finally"
            /\ UNCHANGED << shareCount, shareDelay, err, raised >>
       ELSE IF body.message.t # "str"
       THEN \* message.trim is undefined: the call raises a TypeError
            /\ err' = "message.trim is not a function"
            /\ raised' = "message.trim"
            /\ pc' = "catch"
            /\ UNCHANGED << shareCount, shareDelay, responses >>
       ELSE IF Len(Trim(body.message.v)) = 0
       THEN /\ Send(400, Failure("Message is required"))
            /\ pc' = "finally"
            /\ UNCHANGED << shareCount, shareDelay, err, raised >>
       ELSE /\ shareCount' = Clamp(Default(body.count, JNum(DefaultCount)),
                                   MinShares, MaxShares)
            /\ shareDelay' = Clamp(Default(body.delay, JNum(DefaultDelay)),
                                   MinDelay, MaxDelay)
            /\ pc' = "s_launch"
            /\ UNCHANGED << responses, err, raised >>
    /\ UNCHANGED << me, parked, pushes >>
    /\ UNCHANGED << ep, body, browser, launches, closes, dom, isLoggedIn, postSuccess,
                    i, results, navigated, delayed, rejected, faults >>

ShareLaunch ==
    /\ ep = "share"
    /\ Launch("s_launch", "s_newPage")
    /\ UNCHANGED << me, parked, pushes >>
    /\ UNCHANGED << ep, body, closes, dom, isLoggedIn, postSuccess, shareCount,
                    shareDelay, i, results, navigated, delayed, responses, rejected >>

\* const page = await browser.newPage()
ShareNewPage ==
    /\ ep = "share"
    /\ Call("s_newPage", "s_setViewport", "newPage")
    /\ UNCHANGED << me, parked, pushes >>
    /\ UNCHANGED << ep, body, browser, launches, closes, dom, isLoggedIn, postSuccess,
                    shareCount, shareDelay, i, results, navigated, delayed, responses,
                    rejected >>

\* await page.setViewport(...)
ShareSetViewport ==
    /\ ep = "share"
    /\ Call("s_setViewport", "s_setUserAgent", "setViewport")
    /\ UNCHANGED << me, parked, pushes >>
    /\ UNCHANGED << ep, body, browser, launches, closes, dom, isLoggedIn, postSuccess,
                    shareCount, shareDelay, i, results, navigated, delayed, responses,
                    rejected >>

\* await page.setUserAgent(...)
ShareSetUserAgent ==
    /\ ep = "share"
    /\ Call("s_setUserAgent", "s_setCookie", "setUserAgent")
    /\ UNCHANGED << me, parked, pushes >>
    /\ UNCHANGED << ep, body, browser, launches, closes, dom, isLoggedIn, postSuccess,
                    shareCount, shareDelay, i, results, navigated, delayed, responses,
                    rejected >>

\* await page.setCookie(...appstate); const results = []; let i = 0
ShareSetCookie ==
    /\ ep = "share"
    /\ Call("s_setCookie", "s_loop", "setCookie")
    /\ IF pc' = "s_loop"
       THEN results' = << >> /\ i' = 0
       ELSE UNCHANGED << results, i >>
    /\ UNCHANGED << me, parked, pushes >>
    /\ UNCHANGED << ep, body, browser, launches, closes, dom, isLoggedIn, postSuccess,
                    shareCount, shareDelay, navigated, delayed, responses, rejected >>

\* a variant of the loop test that admits one attempt more
LoopTestInclusive == Less(Minus(Num(i), Num(1)), shareCount)

\* `i < shareCount`
LoopTest == Less(Num(i), shareCount)

\* the loop test, evaluated before every attempt
ShareLoop ==
    /\ ep = "share" /\ pc = "s_loop"
    /\ pc' = IF LoopTest THEN "a_goto" ELSE "s_summary"
    /\ UNCHANGED << me, parked, pushes >>
    /\ UNCHANGED << ep, body, browser, launches, closes, dom, isLoggedIn, postSuccess,
                    shareCount, shareDelay, i, results, navigated, delayed, err,
                    raised, responses, rejected, faults >>

\* `await f(...)` at statement `here` inside the attempt's try block: it returns,
\* or it raises and the error reaches the attempt's catch block
AttemptCall(here, next) ==
    /\ ep = "share" /\ pc = here
    /\ \/ /\ pc' = next
          /\ UNCHANGED << err, faults >>
       \/ /\ faults < MaxFaults
          /\ \E m \in EngineMsgs : err' = m
          /\ pc' = "a_catch"
          /\ faults' = faults + 1

\* `i < shareCount - 1`: this is not the last attempt
NotLast == Less(Num(i), Minus(shareCount, Num(1)))

\* await page.goto('https://facebook.com', ...): some page of the site is loaded
AttemptGoto ==
    /\ ep = "share" /\ pc = "a_goto"
    /\ navigated' = navigated \cup {i + 1}
    /\ \/ /\ pc' = "a_settle"
          /\ \E d \in Pages :
                /\ "Create a post" \in d \/ faults < MaxFaults
                /\ dom' = d
                /\ faults' = IF "Create a post" \in d THEN faults ELSE faults + 1
          /\ err' = err
       \/ /\ faults < MaxFaults
          /\ \E m \in EngineMsgs : err' = m
          /\ pc' = "a_catch"
          /\ faults' = faults + 1
          /\ dom' = dom
    /\ UNCHANGED << me, parked, pushes >>
    /\ UNCHANGED << ep, body, browser, launches, closes, isLoggedIn, postSuccess,
                    shareCount, shareDelay, i, results, delayed, raised, responses,
                    rejected >>

\* await page.waitForTimeout(2000)
AttemptSettle ==
    /\ AttemptCall("a_settle", "a_isLoggedIn")
    /\ UNCHANGED << me, parked, pushes >>
    /\ UNCHANGED << ep, body, browser, launches, closes, dom, isLoggedIn, postSuccess,
                    shareCount, shareDelay, i, results, navigated, delayed, raised,
                    responses, rejected >>

\* the landmark test of an attempt
ShareLandmark(d) == "Create a post" \in d

\* isLoggedIn = await page.evaluate(...); if (!isLoggedIn) throw new Error(...)
AttemptIsLoggedIn ==
    /\ ep = "share" /\ pc = "a_isLoggedIn"
    /\ \/ /\ isLoggedIn' = ShareLandmark(dom)
          /\ IF isLoggedIn'
             THEN pc' = "a_openComposer" /\ err' = err
             ELSE pc' = "a_catch" /\ err' = "Session expired during automation"
          /\ faults' = faults
       \/ /\ faults < MaxFaults
          /\ \E m \in EngineMsgs : err' = m
          /\ pc' = "a_catch"
          /\ faults' = faults + 1
          /\ isLoggedIn' = isLoggedIn
    /\ UNCHANGED << me, parked, pushes >>
    /\ UNCHANGED << ep, body, browser, launches, closes, dom, postSuccess, shareCount,
                    shareDelay, i, results, navigated, delayed, raised, responses,
                    rejected >>

\* await page.click('[aria-label="Create a post"]')
AttemptOpenComposer ==
    /\ AttemptCall("a_openComposer", "a_composerWait")
    /\ UNCHANGED << me, parked, pushes >>
    /\ UNCHANGED << ep, body, browser, launches, closes, dom, isLoggedIn, postSuccess,
                    shareCount, shareDelay, i, results, navigated, delayed, raised,
                    responses, rejected >>

\* await page.waitForTimeout(1000)
AttemptComposerWait ==
    /\ AttemptCall("a_composerWait", "a_type")
    /\ UNCHANGED << me, parked, pushes >>
    /\ UNCHANGED << ep, body, browser, launches, closes, dom, isLoggedIn, postSuccess,
                    shareCount, shareDelay, i, results, navigated, delayed, raised,
                    responses, rejected >>

\* await page.keyboard.type(message)
AttemptType ==
    /\ AttemptCall("a_type", "a_typeWait")
    /\ UNCHANGED << me, parked, pushes >>
    /\ UNCHANGED << ep, body, browser, launches, closes, dom, isLoggedIn, postSuccess,
                    shareCount, shareDelay, i, results, navigated, delayed, raised,
                    responses, rejected >>

\* await page.waitForTimeout(1000); if (link && link.trim()) ...
AttemptTypeWait ==
    /\ ep = "share" /\ pc = "a_typeWait"
    /\ \/ /\ IF Falsy(body.link)
             THEN pc' = "a_post" /\ err' = err
             ELSE IF body.link.t # "str"
             THEN pc' = "a_catch" /\ err' = "link.trim is not a function"
             ELSE IF Trim(body.link.v) # << >>
             THEN pc' = "a_linkClick" /\ err' = err
             ELSE pc' = "a_post" /\ err' = err
          /\ faults' = faults
       \/ /\ faults < MaxFaults
          /\ \E m \in EngineMsgs : err' = m
          /\ pc' = "a_catch"
          /\ faults' = faults + 1
    /\ UNCHANGED << me, parked, pushes >>
    /\ UNCHANGED << ep, body, browser, launches, closes, dom, isLoggedIn, postSuccess,
                    shareCount, shareDelay, i, results, navigated, delayed, raised,
                    responses, rejected >>

\* await page.click('[aria-label="Add to your post"]')
AttemptLinkClick ==
    /\ AttemptCall("a_linkClick", "a_linkClickWait")
    /\ UNCHANGED << me, parked, pushes >>
    /\ UNCHANGED << ep, body, browser, launches, closes, dom, isLoggedIn, postSuccess,
                    shareCount, shareDelay, i, results, navigated, delayed, raised,
                    responses, rejected >>

\* await page.waitForTimeout(1000)
AttemptLinkClickWait ==
    /\ AttemptCall("a_linkClickWait", "a_linkType")
    /\ UNCHANGED << me, parked, pushes >>
    /\ UNCHANGED << ep, body, browser, launches, closes, dom, isLoggedIn, postSuccess,
                    shareCount, shareDelay, i, results, navigated, delayed, raised,
                    responses, rejected >>

\* await page.keyboard.type(link)
AttemptLinkType ==
    /\ AttemptCall("a_linkType", "a_linkTypeWait")
    /\ UNCHANGED << me, parked, pushes >>
    /\ UNCHANGED << ep, body, browser, launches, closes, dom, isLoggedIn, postSuccess,
                    shareCount, shareDelay, i, results, navigated, delayed, raised,
                    responses, rejected >>

\* await page.waitForTimeout(1000)
AttemptLinkTypeWait ==
    /\ AttemptCall("a_linkTypeWait", "a_post")
    /\ UNCHANGED << me, parked, pushes >>
    /\ UNCHANGED << ep, body, browser, launches, closes, dom, isLoggedIn, postSuccess,
                    shareCount, shareDelay, i, results, navigated, delayed, raised,
                    responses, rejected >>

\* await page.click('[aria-label="Post"]'): the page reacts to the submission
AttemptPost ==
    /\ ep = "share" /\ pc = "a_post"
    /\ \/ /\ pc' = "a_postWait"
          /\ \E d \in Pages :
                /\ "Create a post" \notin d \/ faults < MaxFaults
                /\ dom' = d
                /\ faults' = IF "Create a post" \notin d THEN faults ELSE faults + 1
          /\ err' = err
       \/ /\ faults < MaxFaults
          /\ \E m \in EngineMsgs : err' = m
          /\ pc' = "a_catch"
          /\ faults' = faults + 1
          /\ dom' = dom
    /\ UNCHANGED << me, parked, pushes >>
    /\ UNCHANGED << ep, body, browser, launches, closes, isLoggedIn, postSuccess,
                    shareCount, shareDelay, i, results, navigated, delayed, raised,
                    responses, rejected >>

\* await page.waitForTimeout(5000)
AttemptPostWait ==
    /\ AttemptCall("a_postWait", "a_postSuccess")
    /\ UNCHANGED << me, parked, pushes >>
    /\ UNCHANGED << ep, body, browser, launches, closes, dom, isLoggedIn, postSuccess,
                    shareCount, shareDelay, i, results, navigated, delayed, raised,
                    responses, rejected >>

SuccessRecord(n) ==
    [attempt |-> n, success |-> TRUE, message |-> << "Successfully shared post ", n >>]

FailureRecord(n, e) == [attempt |-> n, success |-> FALSE, error |-> e]

\* results.push(rec), by an attempt of the running request
Push(rec) ==
    /\ results' = Append(results, rec)
    /\ pushes' = [pushes EXCEPT ![me] = Append(@, rec)]

\* a variant of the publish check without the negation
PostSuccessInverted(d) == ShareLandmark(d)

\* the publish check: the compose affordance has disappeared
PostSuccess(d) == ~ShareLandmark(d)

\* postSuccess = await page.evaluate(...); if (postSuccess) results.push(...)
\* else throw new Error(...); then `if (i < shareCount - 1)` before the wait
AttemptPostSuccess ==
    /\ ep = "share" /\ pc = "a_postSuccess"
    /\ \/ /\ postSuccess' = PostSuccess(dom)
          /\ IF postSuccess'
             THEN /\ Push(SuccessRecord(i + 1))
                  /\ err' = err
                  /\ IF NotLast
                     THEN pc' = "a_delay" /\ i' = i
                     ELSE pc' = "s_loop" /\ i' = i + 1
             ELSE /\ err' = "Post may not have been published"
                  /\ pc' = "a_catch"
                  /\ UNCHANGED << results, pushes, i >>
          /\ faults' = faults
       \/ /\ faults < MaxFaults
          /\ \E m \in EngineMsgs : err' = m
          /\ pc' = "a_catch"
          /\ faults' = faults + 1
          /\ UNCHANGED << postSuccess, results, pushes, i >>
    /\ UNCHANGED << me, parked >>
    /\ UNCHANGED << ep, body, browser, launches, closes, dom, isLoggedIn, shareCount,
                    shareDelay, navigated, delayed, raised, responses, rejected >>

\* await page.waitForTimeout(shareDelay * 1000), inside the try block; i++
AttemptDelay ==
    /\ AttemptCall("a_delay", "s_loop")
    /\ IF pc' = "s_loop"
       THEN i' = i + 1 /\ delayed' = delayed \cup {i + 1}
       ELSE UNCHANGED << i, delayed >>
    /\ UNCHANGED << me, parked, pushes >>
    /\ UNCHANGED << ep, body, browser, launches, closes, dom, isLoggedIn, postSuccess,
                    shareCount, shareDelay, results, navigated, raised, responses,
                    rejected >>

\* a variant that goes on to the next attempt at once after a failure
CatchDelaysNever == FALSE

\* `if (i < shareCount - 1)` of the catch block: wait before the next attempt
CatchDelays == NotLast

\* catch (attemptError) { results.push(...); if (i < shareCount - 1) ... }
AttemptCatch ==
    /\ ep = "share" /\ pc = "a_catch"
    /\ Push(FailureRecord(i + 1, err))
    /\ IF CatchDelays
       THEN pc' = "a_catchDelay" /\ i' = i
       ELSE pc' = "s_loop" /\ i' = i + 1
    /\ UNCHANGED << me, parked >>
    /\ UNCHANGED << ep, body, browser, launches, closes, dom, isLoggedIn, postSuccess,
                    shareCount, shareDelay, navigated, delayed, err, raised, responses,
                    rejected, faults >>

\* await page.waitForTimeout(shareDelay * 1000), inside the catch block; i++
AttemptCatchDelay ==
    /\ ep = "share"
    /\ Call("a_catchDelay", "s_loop", "waitForTimeout")
    /\ IF pc' = "s_loop"
       THEN i' = i + 1 /\ delayed' = delayed \cup {i + 1}
       ELSE UNCHANGED << i, delayed >>
    /\ UNCHANGED << me, parked, pushes >>
    /\ UNCHANGED << ep, body, browser, launches, closes, dom, isLoggedIn, postSuccess,
                    shareCount, shareDelay, results, navigated, responses, rejected >>

successful == Cardinality({ k \in 1..Len(results) : results[k].success })
failed == Cardinality({ k \in 1..Len(results) : ~results[k].success })

Summary ==
    [total |-> shareCount,
     successful |-> successful,
     failed |-> failed,
     successRate |-> SuccessRate(successful, shareCount)]

\* res.json({ success: true, results, summary })
ShareSummary ==
    /\ ep = "share" /\ pc = "s_summary"
    /\ Send(200, [success |-> TRUE, results |-> results, summary |-> Summary])
    /\ pc' = "finally"
    /\ UNCHANGED << me, parked, pushes >>
    /\ UNCHANGED << ep, body, browser, launches, closes, dom, isLoggedIn, postSuccess,
                    shareCount, shareDelay, i, results, navigated, delayed, err,
                    raised, rejected, faults >>

\* a variant whose catch block logs the error and sends nothing
ShareCatchSilent ==
    /\ ep = "share" /\ pc = "catch"
    /\ responses' = responses
    /\ pc' = "finally"
    /\ UNCHANGED << me, parked, pushes >>
    /\ UNCHANGED << ep, body, browser, launches, closes, dom, isLoggedIn, postSuccess,
                    shareCount, shareDelay, i, results, navigated, delayed, err,
                    raised, rejected, faults >>

\* catch (error) { res.status(500).json(...) }
ShareCatch ==
    /\ ep = "share" /\ pc = "catch"
    /\ Send(500, Failure(<< "Sharing failed: ", err >>))
    /\ pc' = "finally"
    /\ UNCHANGED << me, parked, pushes >>
    /\ UNCHANGED << ep, body, browser, launches, closes, dom, isLoggedIn, postSuccess,
                    shareCount, shareDelay, i, results, navigated, delayed, err,
                    raised, rejected, faults >>

ShareFinally ==
    /\ ep = "share"
    /\ FinallyBlock
    /\ UNCHANGED << me, parked, pushes >>
    /\ UNCHANGED << ep, body, browser, launches, dom, isLoggedIn, postSuccess,
                    shareCount, shareDelay, i, results, navigated, delayed, err,
                    raised, responses, rejected, faults >>

ShareClose ==
    /\ ep = "share"
    /\ CloseDone
    /\ UNCHANGED << me, parked, pushes >>
    /\ UNCHANGED << ep, body, browser, launches, closes, dom, isLoggedIn, postSuccess,
                    shareCount, shareDelay, i, results, navigated, delayed, err,
                    raised, responses, faults >>

-----------------------------------------------------------------------------
(* POST /api/share-story *)

StoryInput ==
    /\ ep = "story" /\ pc = "t_input"
    /\ IF Falsy(body.appstate) \/ Falsy(body.message)
       THEN /\ Send(400, Failure("AppState and message are required"))
            /\ pc' = "finally"
       ELSE /\ pc' = "t_launch"
            /\ UNCHANGED responses
    /\ UNCHANGED << me, parked, pushes >>
    /\ UNCHANGED << ep, body, browser, launches, closes, dom, isLoggedIn, postSuccess,
                    shareCount, shareDelay, i, results, navigated, delayed, err,
                    raised, rejected, faults >>

StoryLaunch ==
    /\ ep = "story"
    /\ Launch("t_launch", "t_newPage")
    /\ UNCHANGED << me, parked, pushes >>
    /\ UNCHANGED << ep, body, closes, dom, isLoggedIn, postSuccess, shareCount,
                    shareDelay, i, results, navigated, delayed, responses, rejected >>

StoryNewPage ==
    /\ ep = "story"
    /\ Call("t_newPage", "t_setCookie", "newPage")
    /\ UNCHANGED << me, parked, pushes >>
    /\ UNCHANGED << ep, body, browser, launches, closes, dom, isLoggedIn, postSuccess,
                    shareCount, shareDelay, i, results, navigated, delayed, responses,
                    rejected >>

\* await page.setCookie(...appstate): spreading a value that is not iterable
\* raises a TypeError before the call is made
StorySetCookie ==
    /\ ep = "story"
    /\ IF body.appstate.t \in {"arr", "str"}
       THEN Call("t_setCookie", "t_goto", "setCookie")
       ELSE /\ pc = "t_setCookie"
            /\ err' = "appstate is not iterable"
            /\ raised' = "spread"
            /\ pc' = "catch"
            /\ faults' = faults
    /\ UNCHANGED << me, parked, pushes >>
    /\ UNCHANGED << ep, body, browser, launches, closes, dom, isLoggedIn, postSuccess,
                    shareCount, shareDelay, i, results, navigated, delayed, responses,
                    rejected >>

\* await page.goto(...); res.json({ success: true, message: ... })
StoryGoto ==
    /\ ep = "story"
    /\ Call("t_goto", "finally", "goto")
    /\ navigated' = navigated \cup {1}
    /\ IF pc' = "finally"
       THEN /\ dom' \in Pages
            /\ Send(200, [success |-> TRUE, message |-> "Story sharing endpoint"])
       ELSE UNCHANGED << dom, responses >>
    /\ UNCHANGED << me, parked, pushes >>
    /\ UNCHANGED << ep, body, browser, launches, closes, isLoggedIn, postSuccess,
                    shareCount, shareDelay, i, results, delayed, rejected >>

StoryCatch ==
    /\ ep = "story" /\ pc = "catch"
    /\ Send(500, Failure(err))
    /\ pc' = "finally"
    /\ UNCHANGED << me, parked, pushes >>
    /\ UNCHANGED << ep, body, browser, launches, closes, dom, isLoggedIn, postSuccess,
                    shareCount, shareDelay, i, results, navigated, delayed, err,
                    raised, rejected, faults >>

StoryFinally ==
    /\ ep = "story"
    /\ FinallyBlock
    /\ UNCHANGED << me, parked, pushes >>
    /\ UNCHANGED << ep, body, browser, launches, dom, isLoggedIn, postSuccess,
                    shareCount, shareDelay, i, results, navigated, delayed, err,
                    raised, responses, rejected, faults >>

StoryClose ==
    /\ ep = "story"
    /\ CloseDone
    /\ UNCHANGED << me, parked, pushes >>
    /\ UNCHANGED << ep, body, browser, launches, closes, dom, isLoggedIn, postSuccess,
                    shareCount, shareDelay, i, results, navigated, delayed, err,
                    raised, responses, faults >>

-----------------------------------------------------------------------------
(* The server handling one request *)

Requests == { 1, 2 }

\* no other request is in flight
NoRequest == [pc |-> "done"]

\* one request, of which no attempt has run yet
Alone == me = 1 /\ parked = NoRequest /\ pushes = [r \in Requests |-> << >>]

Locals ==
    /\ browser = "undefined"
    /\ launches = 0
    /\ closes = 0
    /\ dom = {}
    /\ isLoggedIn = FALSE
    /\ postSuccess = FALSE
    /\ shareCount = NaN
    /\ shareDelay = NaN
    /\ i = 0
    /\ results = << >>
    /\ navigated = {}
    /\ delayed = {}
    /\ err = ""
    /\ raised = "none"
    /\ responses = << >>
    /\ rejected = FALSE
    /\ faults = 0

InitValidate == ep = "validate" /\ body \in ValidateBodies /\ pc = "v_input" /\ Locals /\ Alone
InitShare == ep = "share" /\ body \in ShareBodies /\ pc = "s_input" /\ Locals /\ Alone
InitStory == ep = "story" /\ body \in StoryBodies /\ pc = "t_input" /\ Locals /\ Alone

Init == InitValidate \/ InitShare \/ InitStory

Next ==
    \/ ValidateInput \/ ValidateLaunch \/ ValidateNewPage \/ ValidateSetViewport
    \/ ValidateSetUserAgent \/ ValidateSetCookie \/ ValidateGoto \/ ValidateIsLoggedIn
    \/ ValidateVerdict \/ ValidateUserInfo \/ ValidateCatch \/ ValidateFinally
    \/ ValidateClose
    \/ ShareInput \/ ShareLaunch \/ ShareNewPage \/ ShareSetViewport
    \/ ShareSetUserAgent \/ ShareSetCookie \/ ShareLoop
    \/ AttemptGoto \/ AttemptSettle \/ AttemptIsLoggedIn \/ AttemptOpenComposer
    \/ AttemptComposerWait \/ AttemptType \/ AttemptTypeWait \/ AttemptLinkClick
    \/ AttemptLinkClickWait \/ AttemptLinkType \/ AttemptLinkTypeWait \/ AttemptPost
    \/ AttemptPostWait \/ AttemptPostSuccess \/ AttemptDelay \/ AttemptCatch
    \/ AttemptCatchDelay \/ ShareSummary \/ ShareCatch \/ ShareFinally \/ ShareClose
    \/ StoryInput \/ StoryLaunch \/ StoryNewPage \/ StorySetCookie \/ StoryGoto
    \/ StoryCatch \/ StoryFinally \/ StoryClose

Spec == Init /\ [][Next]_vars

NextValidate ==
    \/ ValidateInput \/ ValidateLaunch \/ ValidateNewPage \/ ValidateSetViewport
    \/ ValidateSetUserAgent \/ ValidateSetCookie \/ ValidateGoto \/ ValidateIsLoggedIn
    \/ ValidateVerdict \/ ValidateUserInfo \/ ValidateCatch \/ ValidateFinally
    \/ ValidateClose

\* the server handling one /api/validate request
SpecValidate == InitValidate /\ [][NextValidate]_vars

NextShare ==
    \/ ShareInput \/ ShareLaunch \/ ShareNewPage \/ ShareSetViewport
    \/ ShareSetUserAgent \/ ShareSetCookie \/ ShareLoop
    \/ AttemptGoto \/ AttemptSettle \/ AttemptIsLoggedIn \/ AttemptOpenComposer
    \/ AttemptComposerWait \/ AttemptType \/ AttemptTypeWait \/ AttemptLinkClick
    \/ AttemptLinkClickWait \/ AttemptLinkType \/ AttemptLinkTypeWait \/ AttemptPost
    \/ AttemptPostWait \/ AttemptPostSuccess \/ AttemptDelay \/ AttemptCatch
    \/ AttemptCatchDelay \/ ShareSummary \/ ShareCatch \/ ShareFinally \/ ShareClose

InitLoop == ep = "share" /\ body \in LoopBodies /\ pc = "s_input" /\ Locals /\ Alone

\* the server handling one /api/share request, every browser call of which
\* settles: the event loop resumes a handler whose awaited promise has settled
SpecShare == InitLoop /\ [][NextShare]_vars /\ WF_vars(NextShare)

-----------------------------------------------------------------------------
(* The server handling two requests at a time *)

\* Node.js runs one handler until its next await and may then resume the
\* other.  Every variable of a handler is declared inside it (`let browser`,
\* `const page`, `const results`, `req`, `res`): resuming a handler brings back
\* its own locals.

\* the locals of the running handler, without `browser`
Closure ==
    [ep |-> ep, body |-> body, pc |-> pc, launches |-> launches, closes |-> closes,
     dom |-> dom, isLoggedIn |-> isLoggedIn, postSuccess |-> postSuccess,
     shareCount |-> shareCount, shareDelay |-> shareDelay, i |-> i,
     results |-> results, navigated |-> navigated, delayed |-> delayed,
     err |-> err, raised |-> raised, responses |-> responses, rejected |-> rejected]

\* a variant in which `isLoggedIn` is one variable of the module, shared by the
\* handlers
IsLoggedInOfModule(c) == isLoggedIn' = isLoggedIn

\* `const isLoggedIn` inside the handler: each handler has its own
IsLoggedInOfHandler(c) == isLoggedIn' = c.isLoggedIn

\* the handler suspended with locals c runs again
Resume(c) ==
    /\ ep' = c.ep /\ body' = c.body /\ pc' = c.pc
    /\ launches' = c.launches /\ closes' = c.closes
    /\ dom' = c.dom /\ IsLoggedInOfHandler(c) /\ postSuccess' = c.postSuccess
    /\ shareCount' = c.shareCount /\ shareDelay' = c.shareDelay /\ i' = c.i
    /\ results' = c.results /\ navigated' = c.navigated /\ delayed' = c.delayed
    /\ err' = c.err /\ raised' = c.raised
    /\ responses' = c.responses /\ rejected' = c.rejected

\* a variant in which `browser` is one variable of the module, shared by the
\* handlers
BrowserOfModule ==
    /\ browser' = browser
    /\ parked' = [f \in DOMAIN Closure \cup {"browser"} |->
                     IF f = "browser" THEN parked.browser ELSE Closure[f]]

\* `let browser` inside the handler: each handler has its own
BrowserOfHandler ==
    /\ browser' = parked.browser
    /\ parked' = [f \in DOMAIN Closure \cup {"browser"} |->
                     IF f = "browser" THEN browser ELSE Closure[f]]

\* the running handler is suspended at an await (or has finished) and the event
\* loop resumes the other one
Switch ==
    /\ parked.pc # "done"
    /\ me' = 3 - me
    /\ BrowserOfHandler
    /\ Resume(parked)
    /\ UNCHANGED << pushes, faults >>

\* the statement a handler starts at
Entry(e) ==
    CASE e = "validate" -> "v_input" [] e = "share" -> "s_input" [] e = "story" -> "t_input"

\* a request of route e and body b that has arrived and not run yet
Arrived(e, b) ==
    [ep |-> e, body |-> b, pc |-> Entry(e), browser |-> "undefined", launches |-> 0,
     closes |-> 0, dom |-> {}, isLoggedIn |-> FALSE, postSuccess |-> FALSE,
     shareCount |-> NaN, shareDelay |-> NaN, i |-> 0, results |-> << >>,
     navigated |-> {}, delayed |-> {}, err |-> "", raised |-> "none",
     responses |-> << >>, rejected |-> FALSE]

ValidAppState == JArr(<< Cookie("c_user", "100"), Cookie("xs", "s1") >>)

\* the pairs of requests in flight together: two validations of one Credential
\* Set, a run of two attempts beside a validation, two runs of one attempt, a
\* story beside a validation
ConcurrentPairs ==
    { << << "validate", Body(ValidAppState, Undef, Undef, Undef, Undef) >>,
         << "validate", Body(ValidAppState, Undef, Undef, Undef, Undef) >> >>,
      << << "share", Body(ValidAppState, JStr(<<"h", "i">>), JStr(<<"u">>), JNum(2), Undef) >>,
         << "validate", Body(ValidAppState, Undef, Undef, Undef, Undef) >> >>,
      << << "share", Body(ValidAppState, JStr(<<"h", "i">>), Undef, Undef, Undef) >>,
         << "share", Body(ValidAppState, JStr(<<"h", "i">>), Undef, Undef, Undef) >> >>,
      << << "story", Body(ValidAppState, JStr(<<"h", "i">>), Undef, Undef, Undef) >>,
         << "validate", Body(ValidAppState, Undef, Undef, Undef, Undef) >> >> }

InitConcurrent ==
    /\ me = 1
    /\ pushes = [r \in Requests |-> << >>]
    /\ \E q \in ConcurrentPairs :
          /\ ep = q[1][1] /\ body = q[1][2] /\ pc = Entry(q[1][1])
          /\ parked = Arrived(q[2][1], q[2][2])
    /\ Locals

NextConcurrent == Next \/ Switch

\* the server handling two requests whose handlers interleave at their awaits
SpecConcurrent == InitConcurrent /\ [][NextConcurrent]_vars

-----------------------------------------------------------------------------
(* Vocabulary of the properties *)

Done == pc = "done"

\* equality of two JavaScript numbers: NaN equals nothing
NumEq(a, b) == ~a.nan /\ ~b.nan /\ a.v = b.v

\* the handler has sent exactly one response, of status s
Answered(s) == Len(responses) = 1 /\ responses[1].status = s

\* /api/share has returned its results and summary
Returned == ep = "share" /\ Answered(200)

\* the appstate is an array that holds an entry named n
HasCookie(n) ==
    /\ IsArray(body.appstate)
    /\ \E k \in 1..Len(body.appstate.v) : body.appstate.v[k].name = n

\* the message is absent, empty, blank or not a text
NoMessage ==
    \/ body.message.t # "str"
    \/ \A k \in 1..Len(body.message.v) : body.message.v[k] = " "

-----------------------------------------------------------------------------
(* Properties *)

\* C1: the results returned by /api/share hold exactly one record per loop
\* iteration, with the ordinals 1, 2, ..., shareCount in that order.
\* Stated as the claim states it; the code violates it when the inter-attempt
\* wait inside the try block raises after the Success record was pushed.
C1_OneRecordPerAttempt ==
    (Returned /\ ~shareCount.nan) =>
        LET r == responses[1].body.results
        IN  /\ Len(r) = shareCount.v
            /\ \A k \in 1..Len(r) : r[k].attempt = k

\* C2: in every summary returned by /api/share, successful + failed = total and
\* successRate is successful / total * 100 rounded to the nearest integer.
C2_SummaryConsistent ==
    Returned =>
        LET s == responses[1].body.summary
        IN  /\ NumEq(Num(s.successful + s.failed), s.total)
            /\ ~s.successRate.nan
            /\ -s.total.v <= 200 * s.successful - 2 * s.total.v * s.successRate.v
            /\ 200 * s.successful - 2 * s.total.v * s.successRate.v < s.total.v

\* C3: in the three handlers a browser session that was acquired is released
\* exactly once on every exit path: browser.close() is never called without a
\* session or a second time, and a finished handler has called it once for the
\* session it launched.
C3_ReleasedExactlyOnce ==
    /\ launches <= 1
    /\ closes <= launches
    /\ (browser # "undefined") = (launches = 1)
    /\ Done => closes = launches

\* C3 witness: a handler finished after an error reached its catch block with a
\* session held, and the session was released once.
C3_Witness == Done /\ launches = 1 /\ closes = 1 /\ raised # "none"

\* C4: a /api/validate request whose appstate lacks an entry named c_user or
\* one named xs never acquires a browser session, and is answered 400.
C4_MissingCookieRejected ==
    (ep = "validate" /\ (~HasCookie("c_user") \/ ~HasCookie("xs"))) =>
        /\ launches = 0 /\ browser = "undefined" /\ navigated = {}
        /\ pc \in {"v_input", "finally", "done"}
        /\ pc # "v_input" => Answered(400)

\* C4 witness: an array that holds c_user but no xs was answered 400.
C4_Witness ==
    /\ ep = "validate" /\ Done
    /\ HasCookie("c_user") /\ ~HasCookie("xs")
    /\ Answered(400)

\* C5: for a /api/share request that passes the input checks the number of
\* attempts run is an integer in [1,10] and summary.total equals it.
\* Stated as the claim states it; the code violates it when parseInt(count) is
\* NaN.
C5_AttemptsClamped ==
    Returned =>
        LET total == responses[1].body.summary.total
        IN  /\ ~total.nan
            /\ total.v \in MinShares..MaxShares
            /\ Cardinality(navigated) = total.v

\* C6: once /api/share holds a browser session no error is fatal: the caller
\* receives the success response with the results and the summary.
\* Stated as the claim states it; the code answers 500 when a step between the
\* launch and the loop raises, or the wait inside the attempt's catch block.
C6_NoFatalError ==
    (ep = "share" /\ launches = 1 /\ Done) => Answered(200)

\* C7: an exception raised inside an attempt gives exactly one Failure record
\* for that attempt, the loop then continues with the next attempt, and the
\* failed attempt counts toward summary.total.
\* Stated as the claim states it; the code abandons the run when the wait
\* inside the attempt's catch block raises (see C6).
C7_FailureRecordedLoopContinues ==
    (ep = "share" /\ Done /\ ~shareCount.nan) =>
        \A k \in 1..Len(results) :
            ~results[k].success =>
                /\ Cardinality({ h \in 1..Len(results) :
                       ~results[h].success /\ results[h].attempt = results[k].attempt }) = 1
                /\ results[k].attempt < shareCount.v => results[k].attempt + 1 \in navigated
                /\ Answered(200) /\ responses[1].body.summary.total = shareCount

\* C8: a /api/share request with an array appstate and a message that is
\* absent, empty, blank or not a text is answered 400 "Message is required",
\* runs no attempt and acquires no browser session.
\* Stated as the claim states it; the code answers 500 when the message is a
\* truthy value that is not a text, because message.trim is not a function.
C8_MessageRequired ==
    (ep = "share" /\ IsArray(body.appstate) /\ NoMessage /\ Done) =>
        /\ Answered(400)
        /\ responses[1].body.error = "Message is required"
        /\ navigated = {} /\ launches = 0

\* the steps of /api/validate that call the automation engine
ErrorSteps ==
    { "launch", "newPage", "setViewport", "setUserAgent", "setCookie", "goto",
      "evaluate isLoggedIn", "evaluate userInfo" }

\* one of the three authenticated-only landmarks is on the page loaded
AnyLandmark == dom \cap { "Create a post", "Messenger", "Notifications" } # {}

\* C9: a /api/validate request that holds c_user and xs gets one of three
\* answers.  It is 500 exactly when a step that drives the browser raised
\* (launching the session and its page, cookie injection, navigation, DOM
\* inspection); otherwise navigation completed, and the answer is the success
\* payload, userId being the value of the c_user entry that find() returns,
\* exactly when one of the three landmarks is on the page, and 401 exactly when
\* none is.
C9_Verdict ==
    (ep = "validate" /\ HasCookie("c_user") /\ HasCookie("xs") /\ Done) =>
        /\ Len(responses) = 1
        /\ responses[1].status \in { 200, 401, 500 }
        /\ Answered(500) <=> raised \in ErrorSteps
        /\ Answered(200) <=> (raised = "none" /\ AnyLandmark)
        /\ Answered(401) <=> (raised = "none" /\ ~AnyLandmark)
        /\ raised = "none" => 1 \in navigated
        /\ Answered(200) =>
              /\ responses[1].body.success
              /\ \E h \in 1..Len(body.appstate.v) :
                    /\ body.appstate.v[h].name = "c_user"
                    /\ \A g \in 1..(h - 1) : body.appstate.v[g].name # "c_user"
                    /\ responses[1].body.userId = body.appstate.v[h].value

\* C9 witness: a session whose page shows a landmark other than the compose
\* affordance was judged authenticated, and the first of two c_user entries
\* gave the userId.
C9_Witness ==
    /\ ep = "validate" /\ Done /\ Answered(200)
    /\ "Create a post" \notin dom
    /\ responses[1].body.userId = "200"

\* C10: when the logged-in check fails on attempt k, record k is a Failure with
\* the session-expired reason and every attempt k+1 .. shareCount is still run
\* from its navigation step.
\* Stated as the claim states it; the code abandons the run when the wait
\* inside the attempt's catch block raises (see C6).
C10_LaterAttemptsStillRun ==
    (ep = "share" /\ Done) =>
        \A k \in 1..Len(results) :
            (~results[k].success /\ results[k].error = "Session expired during automation") =>
                \A j \in (results[k].attempt + 1)..shareCount.v : j \in navigated


\* the link is absent, empty or a text
LinkIsText == Falsy(body.link) \/ body.link.t = "str"

\* C11, how an attempt is judged: a record pushed is the record of the current
\* attempt, and it is a Success exactly when the attempt has reached its publish
\* check, all steps before it having returned, and the compose landmark is
\* absent; when the publish check finds the landmark the error raised is the
\* publish-unconfirmed reason, and the Failure record carries the error caught.
C11_Judgement ==
    /\ Len(results') > Len(results) =>
          /\ results' = Append(results, results'[Len(results')])
          /\ results'[Len(results')].attempt = i + 1
          /\ results'[Len(results')].success <=>
                (pc = "a_postSuccess" /\ "Create a post" \notin dom)
          /\ ~results'[Len(results')].success =>
                (pc = "a_catch" /\ results'[Len(results')].error = err)
    /\ (pc = "a_postSuccess" /\ "Create a post" \in dom /\ faults' = faults) =>
          (pc' = "a_catch" /\ err' = "Post may not have been published"
           /\ results' = results)

\* C11, first scenario: when no call raises, every page loaded shows the compose
\* landmark and every submission removes it, the run returns shareCount Success
\* records and the summary {total, successful: total, failed: 0, successRate: 100}.
C11_AllSucceed ==
    (Returned /\ ~shareCount.nan /\ faults = 0 /\ LinkIsText) =>
        /\ Len(results) = shareCount.v
        /\ \A k \in 1..Len(results) : results[k] = SuccessRecord(k)
        /\ responses[1].body.results = results
        /\ responses[1].body.summary =
              [total |-> shareCount, successful |-> shareCount.v, failed |-> 0,
               successRate |-> Num(100)]

\* C11, second scenario: count = 2 and the publish check of the second attempt
\* is the only failure.
C11_SecondUnconfirmed ==
    (/\ Returned /\ shareCount = Num(2) /\ faults = 1 /\ LinkIsText
     /\ \E k \in 1..Len(results) :
           results[k] = FailureRecord(2, "Post may not have been published")) =>
        /\ results = << SuccessRecord(1),
                        FailureRecord(2, "Post may not have been published") >>
        /\ responses[1].body.results = results
        /\ responses[1].body.summary =
              [total |-> Num(2), successful |-> 1, failed |-> 1, successRate |-> Num(50)]

\* C11: an attempt of /api/share is recorded Success exactly when all of its
\* steps completed without error and the compose landmark is absent at the
\* publish check, and Failure with the publish-unconfirmed reason when the
\* landmark is still present; so a run in which everything succeeds returns
\* all-Success records with successRate 100, and count = 2 with only the second
\* publish check failing returns [Success, Failure] and {2, 1, 1, 50}.
C11_SuccessIffPublished ==
    /\ [][C11_Judgement]_vars
    /\ [](C11_AllSucceed /\ C11_SecondUnconfirmed)

\* C11 witness: the run of the second scenario has returned.
C11_Witness ==
    /\ Returned /\ shareCount = Num(2)
    /\ results = << SuccessRecord(1),
                    FailureRecord(2, "Post may not have been published") >>
    /\ responses[1].body.summary.successRate = Num(50)


\* C12: for a /api/share request that passes the input checks the inter-attempt
\* delay is an integer number of seconds in [5,60].
\* Stated as the claim states it; the code violates it when parseInt(delay) is
\* NaN.
C12_DelayClamped ==
    (ep = "share" /\ pc \notin {"s_input", "catch", "finally", "closing", "done"}) =>
        (~shareDelay.nan /\ shareDelay.v \in MinDelay..MaxDelay)

\* the verdict a /api/validate call answered with, "none" while it has not
\* answered and when it answered with an error
Verdict(rs) ==
    IF Len(rs) = 1 /\ rs[1].status = 200 THEN "authenticated"
    ELSE IF Len(rs) = 1 /\ rs[1].status = 401 THEN "not authenticated"
    ELSE "none"

\* the verdict that belongs to a page: authenticated exactly when one of the
\* three landmarks is on it
VerdictOf(d) ==
    IF d \cap { "Create a post", "Messenger", "Notifications" } # {}
    THEN "authenticated" ELSE "not authenticated"

\* C13: the verdict of a /api/validate call is a function of the page the site
\* served for its Credential Set, whatever another request does before it or
\* between its steps; hence two calls with the same Credential Set that were
\* served the same page never give different verdicts.
C13_SameVerdict ==
    /\ (ep = "validate" /\ Verdict(responses) # "none") =>
          Verdict(responses) = VerdictOf(dom)
    /\ (parked.ep = "validate" /\ Verdict(parked.responses) # "none") =>
          Verdict(parked.responses) = VerdictOf(parked.dom)
    /\ ( /\ ep = "validate" /\ parked.ep = "validate"
         /\ body = parked.body /\ dom = parked.dom
         /\ Verdict(responses) # "none" /\ Verdict(parked.responses) # "none" ) =>
          Verdict(responses) = Verdict(parked.responses)

\* C13 witness: two calls with the same Credential Set were served the same
\* page and both answered authenticated.
C13_Witness ==
    /\ ep = "validate" /\ parked.ep = "validate" /\ body = parked.body
    /\ dom = { "Messenger" } /\ parked.dom = dom
    /\ Verdict(responses) = "authenticated"
    /\ Verdict(parked.responses) = "authenticated"

\* C14: attempt N+1 does not begin its navigation before a record of attempt N
\* is in the log and the inter-attempt wait taken after it has elapsed, whether
\* attempt N succeeded or failed; a wait elapses only after the record of its
\* attempt is in the log; no wait is taken after the final attempt.
C14_RecordThenDelayThenNext ==
    ep = "share" =>
        /\ \A n \in navigated :
              n > 1 => /\ (n - 1) \in delayed
                       /\ \E k \in 1..Len(results) : results[k].attempt = n - 1
        /\ \A n \in delayed :
              /\ \E k \in 1..Len(results) : results[k].attempt = n
              /\ ~shareCount.nan /\ n < shareCount.v
        /\ pc \in {"a_delay", "a_catchDelay"} =>
              /\ \E k \in 1..Len(results) : results[k].attempt = i + 1
              /\ ~shareCount.nan /\ i + 1 < shareCount.v

\* C14 witness: attempt 2 began after attempt 1 had failed, been recorded and
\* been followed by the wait.
C14_Witness ==
    /\ ep = "share" /\ 2 \in navigated /\ 1 \in delayed
    /\ Len(results) >= 1 /\ ~results[1].success

\* C15: when the response of a request that acquired a browser session is
\* sent, the session has been released.
\* Stated as the claim states it; the handlers respond inside the try block
\* and close the browser in the finally block that runs after it.
C15_ReleasedBeforeResponse ==
    (launches = 1 /\ Len(responses) >= 1) => closes = 1

\* the appstate is absent, not an array, or lacks c_user or xs
BadCookies == ~HasCookie("c_user") \/ ~HasCookie("xs")

\* C16: on every route a request with malformed or missing cookies, or on
\* /api/share and /api/share-story a missing message, is answered 400 and
\* acquires no browser session.
\* Stated as the claim states it; /api/share does not look for c_user and xs,
\* and /api/share-story takes any truthy appstate.
C16_BadInputRejected ==
    (BadCookies \/ (ep \in {"share", "story"} /\ Falsy(body.message))) =>
        /\ launches = 0
        /\ Done => Answered(400)

\* C17: the logged-in check of an attempt passes exactly when /api/validate
\* would judge the page authenticated.
\* Stated as the claim states it; the attempt looks for the compose landmark
\* only, /api/validate for any of three.
C17_SameLandmarkTest ==
    ep = "share" =>
        /\ pc = "a_openComposer" => ValidateLandmarks(dom)
        /\ (pc = "a_catch" /\ err = "Session expired during automation") =>
              ~ValidateLandmarks(dom)

\* C19: every request is answered with exactly one response: never a second
\* one, and one has been sent when the handler reaches its finally block, also
\* when browser.close() raises after the response was sent.
C19_OneResponse ==
    /\ Len(responses) <= 1
    /\ pc \in {"finally", "closing", "done"} => Len(responses) = 1

\* C19 witness: browser.close() raised after the response was sent.
C19_Witness == Done /\ rejected /\ Len(responses) = 1

\* the number of attempts the loop admits
EffectiveCount == IF shareCount.nan THEN 0 ELSE shareCount.v

\* C20: provided every browser call settles, a /api/share run ends: the loop
\* starts at most the effective attempt count of attempts, never more than 10,
\* and the handler eventually finishes, having sent one response and closed
\* every browser it launched.
C20_Terminates ==
    /\ [](/\ i <= EffectiveCount
          /\ Cardinality(navigated) <= EffectiveCount
          /\ EffectiveCount <= MaxShares)
    /\ <>(Done /\ Len(responses) = 1 /\ closes = launches)

\* C20 witness: a run of the greatest admitted number of attempts has finished.
C20_Witness ==
    /\ Done /\ Returned /\ closes = 1
    /\ Cardinality(navigated) = MaxShares

\* the request that is not running
other == 3 - me

\* a response of /api/share that carries exactly the log `log` and its counts
CarriesLog(rs, log) ==
    (Len(rs) = 1 /\ rs[1].status = 200) =>
        /\ rs[1].body.results = log
        /\ rs[1].body.summary.successful =
              Cardinality({ k \in 1..Len(log) : log[k].success })
        /\ rs[1].body.summary.failed =
              Cardinality({ k \in 1..Len(log) : ~log[k].success })

\* C18: with two requests interleaving at their awaits, the browser a handler
\* holds (and closes in its finally block) is the session it launched itself,
\* and the log and the response of a /api/share run hold exactly the records
\* that run's own attempts pushed.
C18_Isolated ==
    /\ browser \in { "undefined", Session(me) }
    /\ parked.browser \in { "undefined", Session(other) }
    /\ ep = "share" => /\ results = pushes[me]
                       /\ CarriesLog(responses, pushes[me])
    /\ parked.ep = "share" => /\ parked.results = pushes[other]
                              /\ CarriesLog(parked.responses, pushes[other])

\* C18 witness: two /api/share runs are in flight, each with its own open
\* session, and their logs differ.
C18_Witness ==
    /\ ep = "share" /\ parked.ep = "share"
    /\ browser = Session(me) /\ parked.browser = Session(other)
    /\ Len(results) = 1 /\ Len(parked.results) = 1
    /\ results[1].success /\ ~parked.results[1].success
    /\ pc \notin { "done", "closing" } /\ parked.pc \notin { "done", "closing" }

====
